---- MODULE Spec2Model ----
(***************************************************************************)
(* Model of update_wasde.py: the WASDE dashboard updater.  One run         *)
(* downloads the monthly workbook, extracts the corn / soybean / wheat     *)
(* figures by label-prefix row search, normalises the 4-period series to   *)
(* the published 3-element series and substitutes the record into the      *)
(* WASDE_DATA block of index.html.                                         *)
(*                                                                         *)
(* Text is modelled as a sequence of one-character strings, so that        *)
(* strip(), startswith(), "in" and the formatting of numbers are computed  *)
(* as Python computes them.  Numbers are naturals standing for the floats  *)
(* of the sheet.  A sheet cell is a text cell (the empty cell is the empty *)
(* text, as xlrd reports it) or a number cell.                             *)
(***************************************************************************)
EXTENDS Integers, Sequences, FiniteSets, TLC

VARIABLES
    year,       \* args.year
    month,      \* args.month
    source,     \* the workbook the report source serves for the request
    html,       \* the display artifact index.html
    xls,        \* the downloaded report file of the run: << >> or <<workbook>>
    raw,        \* extract_data's locals corn / soybeans / wheat: << >> or <<r>>
    data,       \* the record extract_data returned: << >> or <<record>>
    pc,         \* position of main()
    runs        \* number of runs started so far

vars == <<year, month, source, html, xls, raw, data, pc, runs>>

----------------------------------------------------------------------------
(* Bounds of the model *)

MaxRows == 4
MinYear == 2025
MaxYear == 2026
MaxRuns == 2
SheetMonth == 2

----------------------------------------------------------------------------
(* Python text primitives *)

Whitespace == {" ", "\t", "\n"}

Digits == <<"0","1","2","3","4","5","6","7","8","9">>

IsDigit(c) == \E i \in 1..10 : Digits[i] = c

DigitVal(c) == (CHOOSE i \in 1..10 : Digits[i] = c) - 1

RECURSIVE Str(_)
\* str(n) / f"{n}" of a non-negative integer
Str(n) == IF n < 10 THEN <<Digits[n + 1]>> ELSE Str(n \div 10) \o <<Digits[(n % 10) + 1]>>

\* str(x) of a float holding a whole number: "3.0"
FloatStr(n) == Str(n) \o <<".","0">>

RECURSIVE LStrip(_)
LStrip(s) == IF s = << >> \/ s[1] \notin Whitespace THEN s ELSE LStrip(Tail(s))

RECURSIVE RStrip(_)
RStrip(s) ==
    IF s = << >> \/ s[Len(s)] \notin Whitespace THEN s ELSE RStrip(SubSeq(s, 1, Len(s) - 1))

\* s.strip()
Strip(s) == RStrip(LStrip(s))

\* s.startswith(p)
StartsWith(s, p) == Len(s) >= Len(p) /\ SubSeq(s, 1, Len(p)) = p

\* p in s
Contains(s, p) == \E i \in 1..(Len(s) - Len(p) + 1) : SubSeq(s, i, i + Len(p) - 1) = p

RECURSIVE ParseNat(_)
ParseNat(s) == IF s = << >> THEN 0 ELSE 10 * ParseNat(SubSeq(s, 1, Len(s) - 1)) + DigitVal(s[Len(s)])

\* float(text) succeeds on (whitespace-padded) digit text; anything else raises ValueError
Parses(s) == LET d == Strip(s) IN d # << >> /\ \A i \in 1..Len(d) : IsDigit(d[i])

----------------------------------------------------------------------------
(* Sheet cells *)

T(s) == [isnum |-> FALSE, n |-> 0, s |-> s]
N(n) == [isnum |-> TRUE, n |-> n, s |-> << >>]

Empty == T(<< >>)

\* str(cell_value)
CellStr(c) == IF c.isnum THEN FloatStr(c.n) ELSE c.s

safe(val) ==
    IF val.isnum THEN val.n
    ELSE IF val.s = << >> THEN 0
    ELSE IF Parses(val.s) THEN ParseNat(Strip(val.s))
    ELSE 0

----------------------------------------------------------------------------
(* Python values of the commodity mappings, tagged by their Python type *)

NumList(v) == [t |-> "numlist", v |-> v]
StrList(v) == [t |-> "strlist", v |-> v]
Dict(d)    == [t |-> "dict", v |-> d]
Num(x)     == [t |-> "num", v |-> x]

\* rows[i] and row[j] with Python's 0-based indices
Row(rows, i) == rows[i + 1]
Col(row, j) == row[j + 1]

\* the index a "for i in ...: if ...: return/break" loop stops at
First(S) == CHOOSE i \in S : \A j \in S : i <= j

\* str(row[0]).strip().startswith(label)
LabelMatches(row, label) == StartsWith(Strip(CellStr(Col(row, 0))), label)

----------------------------------------------------------------------------
(* Report identifier, lines 53-62 *)

IsSep(c) == c \in {"-", " "}

RECURSIVE SkipSeps(_, _)
\* the index after the run of '-' and ' ' starting at i
SkipSeps(val, i) == IF i <= Len(val) /\ IsSep(val[i]) THEN SkipSeps(val, i + 1) ELSE i

RECURSIVE SkipDigits(_, _)
SkipDigits(val, i) == IF i <= Len(val) /\ IsDigit(val[i]) THEN SkipDigits(val, i + 1) ELSE i

\* re.search(r'WASDE[- ]+(\d+)', val): the positions at which the pattern matches
WasdeMatches(val) ==
    {i \in 1..(Len(val) - 6) :
        /\ SubSeq(val, i, i + 4) = <<"W","A","S","D","E">>
        /\ SkipSeps(val, i + 5) > i + 5
        /\ SkipDigits(val, SkipSeps(val, i + 5)) > SkipSeps(val, i + 5)}

\* m.group(1) of the leftmost match
WasdeGroup(val) ==
    LET i == First(WasdeMatches(val))
        d == SkipSeps(val, i + 5)
    IN  SubSeq(val, d, SkipDigits(val, d) - 1)

\* Every scanned row with a match overwrites report_id (the break leaves only the
\* column loop), so the last matching row among the first 10 decides.
report_id(txt) ==
    LET ncols == IF Len(txt) = 0 THEN 0 ELSE Len(txt[1])
        hit(r) == {c \in 0..(IF ncols < 5 THEN ncols ELSE 5) - 1 :
                      WasdeMatches(CellStr(Col(Row(txt, r), c))) # {}}
        rs == {r \in 0..(IF Len(txt) < 10 THEN Len(txt) ELSE 10) - 1 : hit(r) # {}}
    IN  IF rs = {} THEN <<"W","A","S","D","E">>
        ELSE LET r == CHOOSE x \in rs : \A y \in rs : y <= x
             IN  <<"W","A","S","D","E","-">> \o WasdeGroup(CellStr(Col(Row(txt, r), First(hit(r)))))

month_names == << << >>, <<"J","a","n","u","a","r","y">>, <<"F","e","b","r","u","a","r","y">>, <<"M","a","r","c","h">>, <<"A","p","r","i","l">>, <<"M","a","y">>, <<"J","u","n","e">>,
                 <<"J","u","l","y">>, <<"A","u","g","u","s","t">>, <<"S","e","p","t","e","m","b","e","r">>, <<"O","c","t","o","b","e","r">>, <<"N","o","v","e","m","b","e","r">>, <<"D","e","c","e","m","b","e","r">> >>

report_date(y, m) == month_names[m + 1] \o <<" ">> \o Str(y)

----------------------------------------------------------------------------
(* Corn, page 12 *)

corn_start(corn_rows) ==
    LET hits == {i \in 0..Len(corn_rows) - 1 : LabelMatches(Row(corn_rows, i), <<"C","O","R","N">>)}
    IN  IF hits = {} THEN 0 ELSE First(hits)

get_corn_row_nofallback(corn_rows, label, start) ==
    LET hits == {i \in start..Len(corn_rows) - 1 : LabelMatches(Row(corn_rows, i), label)}
    IN  IF hits = {} THEN <<1, 1, 1, 1>>
        ELSE [j \in 1..4 |-> safe(Col(Row(corn_rows, First(hits)), j))]

get_corn_row(corn_rows, label, start) ==
    LET hits == {i \in start..Len(corn_rows) - 1 : LabelMatches(Row(corn_rows, i), label)}
    IN  IF hits = {} THEN <<0, 0, 0, 0>>
        ELSE [j \in 1..4 |-> safe(Col(Row(corn_rows, First(hits)), j))]

\* output key -> label prefix
CornSchema ==
    [price |-> <<"A","v","g","."," ","F","a","r","m"," ","P","r","i","c","e">>, planted |-> <<"A","r","e","a"," ","P","l","a","n","t","e","d">>,
     harvested |-> <<"A","r","e","a"," ","H","a","r","v","e","s","t","e","d">>, yield |-> <<"Y","i","e","l","d"," ","p","e","r">>,
     begStocks |-> <<"B","e","g","i","n","n","i","n","g"," ","S","t","o","c","k","s">>, production |-> <<"P","r","o","d","u","c","t","i","o","n">>,
     imports |-> <<"I","m","p","o","r","t","s">>, supplyTotal |-> <<"S","u","p","p","l","y",","," ","T","o","t","a","l">>,
     feedResidual |-> <<"F","e","e","d"," ","a","n","d"," ","R","e","s","i","d","u","a","l">>, fsi |-> <<"F","o","o","d",","," ","S","e","e","d"," ","&"," ","I","n","d","u","s","t","r","i","a","l">>,
     ethanol |-> <<"E","t","h","a","n","o","l">>, domesticTotal |-> <<"D","o","m","e","s","t","i","c",","," ","T","o","t","a","l">>,
     exports |-> <<"E","x","p","o","r","t","s">>, useTotal |-> <<"U","s","e",","," ","T","o","t","a","l">>,
     endStocks |-> <<"E","n","d","i","n","g"," ","S","t","o","c","k","s">>]

corn(corn_rows) ==
    LET start == corn_start(corn_rows)
    IN  [k \in DOMAIN CornSchema |-> NumList(get_corn_row(corn_rows, CornSchema[k], start))]

----------------------------------------------------------------------------
(* Soybeans, page 15 *)

find_section(rows, label) ==
    LET hits == {i \in 0..Len(rows) - 1 : LabelMatches(Row(rows, i), label)}
    IN  IF hits = {} THEN 0 ELSE First(hits)

soy_start(soy_rows) == find_section(soy_rows, <<"S","O","Y","B","E","A","N","S">>)
oil_start(soy_rows) == find_section(soy_rows, <<"S","O","Y","B","E","A","N"," ","O","I","L">>)
meal_start(soy_rows) == find_section(soy_rows, <<"S","O","Y","B","E","A","N"," ","M","E","A","L">>)

\* The end argument: << >> is None, <<n>> an index.  "end or oil_start or len(soy_rows)"
SoyEnd(soy_rows, oil, end) ==
    IF end # << >> /\ end[1] # 0 THEN end[1]
    ELSE IF oil # 0 THEN oil
    ELSE Len(soy_rows)

get_soy_row_unbounded(soy_rows, oil, label, start, end) ==
    LET hits == {i \in start..Len(soy_rows) - 1 : LabelMatches(Row(soy_rows, i), label)}
    IN  IF hits = {} THEN <<0, 0, 0, 0>>
        ELSE [j \in 1..4 |-> safe(Col(Row(soy_rows, First(hits)), j))]

\* oil is the enclosing oil_start
get_soy_row(soy_rows, oil, label, start, end) ==
    LET e == SoyEnd(soy_rows, oil, end)
        hits == {i \in start..e - 1 : LabelMatches(Row(soy_rows, i), label)}
    IN  IF hits = {} THEN <<0, 0, 0, 0>>
        ELSE [j \in 1..4 |-> safe(Col(Row(soy_rows, First(hits)), j))]

SoySchema ==
    [price |-> <<"A","v","g","."," ","F","a","r","m"," ","P","r","i","c","e">>, planted |-> <<"A","r","e","a"," ","P","l","a","n","t","e","d">>,
     harvested |-> <<"A","r","e","a"," ","H","a","r","v","e","s","t","e","d">>, yield |-> <<"Y","i","e","l","d"," ","p","e","r">>,
     begStocks |-> <<"B","e","g","i","n","n","i","n","g"," ","S","t","o","c","k","s">>, production |-> <<"P","r","o","d","u","c","t","i","o","n">>,
     imports |-> <<"I","m","p","o","r","t","s">>, supplyTotal |-> <<"S","u","p","p","l","y",","," ","T","o","t","a","l">>,
     crushings |-> <<"C","r","u","s","h","i","n","g","s">>, exports |-> <<"E","x","p","o","r","t","s">>, seed |-> <<"S","e","e","d">>,
     residual |-> <<"R","e","s","i","d","u","a","l">>, useTotal |-> <<"U","s","e",","," ","T","o","t","a","l">>,
     endStocks |-> <<"E","n","d","i","n","g"," ","S","t","o","c","k","s">>]

OilSchema ==
    [price |-> <<"A","v","g","."," ","P","r","i","c","e">>, production |-> <<"P","r","o","d","u","c","t","i","o","n">>,
     domesticUse |-> <<"D","o","m","e","s","t","i","c"," ","D","i","s","a","p","p","e","a","r","a","n","c","e">>, biofuel |-> <<"B","i","o","f","u","e","l">>,
     exports |-> <<"E","x","p","o","r","t","s">>, endStocks |-> <<"E","n","d","i","n","g"," ","s","t","o","c","k","s">>]

MealSchema ==
    [price |-> <<"A","v","g","."," ","P","r","i","c","e">>, production |-> <<"P","r","o","d","u","c","t","i","o","n">>,
     domesticUse |-> <<"D","o","m","e","s","t","i","c"," ","D","i","s","a","p","p","e","a","r","a","n","c","e">>, exports |-> <<"E","x","p","o","r","t","s">>,
     endStocks |-> <<"E","n","d","i","n","g"," ","S","t","o","c","k","s">>]

soybeans(soy_rows) ==
    LET soy  == soy_start(soy_rows)
        oil  == oil_start(soy_rows)
        meal == meal_start(soy_rows)
    IN  [k \in DOMAIN SoySchema |->
            NumList(get_soy_row(soy_rows, oil, SoySchema[k], soy, << >>))]
        @@ ("oil" :> Dict([k \in DOMAIN OilSchema |->
                NumList(get_soy_row(soy_rows, oil, OilSchema[k], oil, <<meal>>))]))
        @@ ("meal" :> Dict([k \in DOMAIN MealSchema |->
                NumList(get_soy_row(soy_rows, oil, MealSchema[k], meal, << >>))]))

----------------------------------------------------------------------------
(* Wheat, page 11 *)

WheatTopRows == 30
WbcWindow == 15

Min2(a, b) == IF a < b THEN a ELSE b

get_wheat_row(wheat_rows, label, start, end) ==
    LET hits == {i \in start..Min2(end, Len(wheat_rows)) - 1 :
                    LabelMatches(Row(wheat_rows, i), label)}
    IN  IF hits = {} THEN <<0, 0, 0, 0>>
        ELSE LET r == Row(wheat_rows, First(hits))
             IN  <<safe(Col(r, 4)), safe(Col(r, 6)), safe(Col(r, 9)), safe(Col(r, 11))>>

WheatSchema ==
    [price |-> <<"A","v","g","."," ","F","a","r","m"," ","P","r","i","c","e">>, planted |-> <<"A","r","e","a"," ","P","l","a","n","t","e","d">>,
     harvested |-> <<"A","r","e","a"," ","H","a","r","v","e","s","t","e","d">>, yield |-> <<"Y","i","e","l","d"," ","p","e","r">>,
     begStocks |-> <<"B","e","g","i","n","n","i","n","g"," ","S","t","o","c","k","s">>, production |-> <<"P","r","o","d","u","c","t","i","o","n">>,
     imports |-> <<"I","m","p","o","r","t","s">>, supplyTotal |-> <<"S","u","p","p","l","y",","," ","T","o","t","a","l">>,
     food |-> <<"F","o","o","d">>, seed |-> <<"S","e","e","d">>, feedResidual |-> <<"F","e","e","d"," ","a","n","d"," ","R","e","s","i","d","u","a","l">>,
     domesticTotal |-> <<"D","o","m","e","s","t","i","c",","," ","T","o","t","a","l">>, exports |-> <<"E","x","p","o","r","t","s">>,
     useTotal |-> <<"U","s","e",","," ","T","o","t","a","l">>, endStocks |-> <<"E","n","d","i","n","g"," ","S","t","o","c","k","s">>]

wbc_start(wheat_rows) == find_section(wheat_rows, <<"U",".","S","."," ","W","h","e","a","t"," ","b","y"," ","C","l","a","s","s">>)

proj_row_start(wheat_rows) ==
    LET hits == {i \in wbc_start(wheat_rows)..Len(wheat_rows) - 1 :
                    Contains(CellStr(Col(Row(wheat_rows, i), 0)), <<"2","0","2","5","/","2","6">>)}
    IN  IF hits = {} THEN 0 ELSE First(hits)

get_wbc_row(wheat_rows, label, start) ==
    LET hits == {i \in start..Min2(start + WbcWindow, Len(wheat_rows)) - 1 :
                    StartsWith(Strip(CellStr(Col(Row(wheat_rows, i), 1))), label)}
    IN  IF hits = {} THEN <<0, 0, 0, 0, 0>>
        ELSE LET r == Row(wheat_rows, First(hits))
             IN  <<safe(Col(r, 3)), safe(Col(r, 5)), safe(Col(r, 7)), safe(Col(r, 8)),
                   safe(Col(r, 10))>>

ClassLabels == <<<<"H","R","W">>, <<"H","R","S">>, <<"S","R","W">>, <<"W","h","i","t","e">>, <<"D","u","r","u","m">>>>

WbcSchema ==
    [production |-> <<"P","r","o","d","u","c","t","i","o","n">>, exports |-> <<"E","x","p","o","r","t","s">>,
     endStocks |-> <<"E","n","d","i","n","g"," ","S","t","o","c","k","s",","," ","T","o","t","a","l">>]

wheat(wheat_rows) ==
    LET proj == proj_row_start(wheat_rows)
    IN  [k \in DOMAIN WheatSchema |->
            NumList(get_wheat_row(wheat_rows, WheatSchema[k], 0, WheatTopRows))]
        @@ ("byClass" :> Dict(
                [k \in DOMAIN WbcSchema |->
                    NumList(get_wbc_row(wheat_rows, WbcSchema[k], proj))]
                @@ ("labels" :> StrList(ClassLabels))))

----------------------------------------------------------------------------
(* Series normalisation, lines 221-246 *)

to3_keep_prev(arr) == IF Len(arr) = 4 THEN <<arr[1], arr[2], arr[3]>> ELSE SubSeq(arr, 1, Min2(3, Len(arr)))

to3(arr) == IF Len(arr) = 4 THEN <<arr[1], arr[2], arr[4]>> ELSE SubSeq(arr, 1, Min2(3, Len(arr)))

to3_prev(arr) == IF Len(arr) = 4 THEN arr[3] ELSE 0

RECURSIVE process_dict(_)
process_dict(d) ==
    [k \in DOMAIN d |->
        IF d[k].t = "dict" THEN Dict(process_dict(d[k].v))
        ELSE IF d[k].t = "numlist" /\ Len(d[k].v) >= 4 THEN NumList(to3(d[k].v))
        ELSE d[k]]

\* corn['endStocks'][2] if len(corn['endStocks']) >= 3 else 0
es_prev(c) == IF Len(c.endStocks.v) >= 3 THEN c.endStocks.v[3] ELSE 0

prev_months_no_wrap == << << >>, << >>, <<"J","a","n">>, <<"F","e","b">>, <<"M","a","r">>, <<"A","p","r">>, <<"M","a","y">>, <<"J","u","n">>, <<"J","u","l">>,
                         <<"A","u","g">>, <<"S","e","p">>, <<"O","c","t">>, <<"N","o","v">> >>

prev_months == << << >>, <<"D","e","c">>, <<"J","a","n">>, <<"F","e","b">>, <<"M","a","r">>, <<"A","p","r">>, <<"M","a","y">>, <<"J","u","n">>, <<"J","u","l">>,
                 <<"A","u","g">>, <<"S","e","p">>, <<"O","c","t">>, <<"N","o","v">> >>

cur_months == << << >>, <<"J","a","n">>, <<"F","e","b">>, <<"M","a","r">>, <<"A","p","r">>, <<"M","a","y">>, <<"J","u","n">>, <<"J","u","l">>, <<"A","u","g">>,
                <<"S","e","p">>, <<"O","c","t">>, <<"N","o","v">>, <<"D","e","c">> >>

years_labels == <<<<"2","0","2","3","/","2","4">>, <<"2","0","2","4","/","2","5"," ","E","s","t",".">>, <<"2","0","2","5","/","2","6"," ","P","r","o","j",".">>>>

\* corn / soybeans / wheat as extract_data holds them before normalisation
raw_of(wb) ==
    [corn |-> corn(wb.corn), soybeans |-> soybeans(wb.soy), wheat |-> wheat(wb.wheat)]

\* the record built from the three mappings, lines 243-266
assemble(r, wb, y, m) ==
        [reportId   |-> report_id(wb.txt),
         reportDate |-> report_date(y, m),
         years      |-> years_labels,
         prevMonth  |-> prev_months[m + 1],
         curMonth   |-> cur_months[m + 1],
         corn       |-> process_dict(r.corn) @@ ("endStocksPrev" :> Num(es_prev(r.corn))),
         soybeans   |-> process_dict(r.soybeans)
                            @@ ("endStocksPrev" :> Num(es_prev(r.soybeans))),
         wheat      |-> process_dict(r.wheat) @@ ("endStocksPrev" :> Num(es_prev(r.wheat)))]

extract_data(wb, y, m) == assemble(raw_of(wb), wb, y, m)

----------------------------------------------------------------------------
(* The display artifact *)

\* index.html: whether it holds a "const WASDE_DATA = {...}; // END DATA" block, and
\* the block's text: << >> is the text the template was shipped with, <<d>> is
\* json.dumps(d, indent=2)
TemplateWithBlock == [block |-> TRUE, content |-> << >>]
TemplateWithoutBlock == [block |-> FALSE, content |-> << >>]

re_sub_appends_block(h, d) == [block |-> TRUE, content |-> <<d>>]

\* re.sub(pattern, replacement, html, flags=re.DOTALL)
re_sub(h, d) == IF h.block THEN [block |-> TRUE, content |-> <<d>>] ELSE h

----------------------------------------------------------------------------
(* Inputs: the sheets the report source can serve *)

RECURSIVE SeqsUpTo(_, _)
SeqsUpTo(S, n) ==
    IF n = 0 THEN {<< >>}
    ELSE LET shorter == SeqsUpTo(S, n - 1)
         IN  shorter \cup {Append(q, x) : q \in {r \in shorter : Len(r) = n - 1}, x \in S}

NoVals == <<Empty, Empty, Empty, Empty>>
ValsA == <<N(1), N(2), N(3), N(4)>>
ValsB == <<T(<<"5">>), Empty, T(<<"N","/","A">>), N(6)>>
ValsC == <<N(7), T(<<" ","8"," ">>), N(9), T(<<"1","0">>)>>

\* a row of pages 12 and 15: label, then the four period columns
PeriodRow(label, vals) == <<label>> \o vals

\* a row of the top block of page 11: periods in columns 4, 6, 9, 11
WheatTopRow(label, vals) ==
    <<label, Empty, Empty, Empty, vals[1], Empty, vals[2], Empty, Empty, vals[3], Empty,
      vals[4]>>

\* a row of the by-class block of page 11: classes in columns 3, 5, 7, 8, 10
WheatClassRow(yr, label, vals) ==
    <<yr, label, Empty, vals[1], Empty, vals[2], Empty, vals[3], vals[4], Empty, vals[5],
      Empty>>

CornRowKinds ==
    { PeriodRow(N(2025), ValsC),
      PeriodRow(T(<<"C","O","R","N">>), NoVals),
      PeriodRow(T(<<"P","r","o","d","u","c","t","i","o","n">>), ValsA),
      PeriodRow(T(<<" ","P","r","o","d","u","c","t","i","o","n"," ","2","/">>), ValsB),
      PeriodRow(T(<<"E","n","d","i","n","g"," ","S","t","o","c","k","s">>), ValsC) }

SoyRowKinds ==
    { PeriodRow(T(<<"S","O","Y","B","E","A","N","S">>), NoVals),
      PeriodRow(T(<<"S","O","Y","B","E","A","N"," ","O","I","L">>), NoVals),
      PeriodRow(T(<<"S","O","Y","B","E","A","N"," ","M","E","A","L">>), NoVals),
      PeriodRow(T(<<"P","r","o","d","u","c","t","i","o","n">>), ValsA),
      PeriodRow(T(<<" ","P","r","o","d","u","c","t","i","o","n"," ","2","/">>), ValsB),
      PeriodRow(T(<<"E","n","d","i","n","g"," ","S","t","o","c","k","s">>), ValsC) }

WheatRowKinds ==
    { WheatTopRow(T(<<"E","n","d","i","n","g"," ","S","t","o","c","k","s">>), ValsC),
      WheatTopRow(T(<<"U",".","S","."," ","W","h","e","a","t"," ","b","y"," ","C","l","a","s","s">>), NoVals),
      WheatClassRow(T(<<"2","0","2","5","/","2","6"," ","(","P","r","o","j",".",")">>), T(<<"P","r","o","d","u","c","t","i","o","n">>), <<N(1), N(2), N(3), N(4), N(5)>>),
      WheatClassRow(Empty, T(<<"E","x","p","o","r","t","s">>), <<N(6), T(<<"7">>), Empty, N(8), N(9)>>),
      WheatClassRow(T(<<"2","0","2","4","/","2","5"," ","(","E","s","t",".",")">>), T(<<"P","r","o","d","u","c","t","i","o","n">>), <<N(5), N(4), N(3), N(2), N(1)>>) }

SampleTxt == << <<T(<<"W","A","S","D","E"," ","-"," ","6","5","7">>), Empty>>, <<Empty, T(<<"R","e","p","o","r","t"," ","W","A","S","D","E","-","6","5","8"," ">>)>> >>

SampleCorn ==
    << PeriodRow(T(<<"C","O","R","N">>), NoVals), PeriodRow(T(<<"P","r","o","d","u","c","t","i","o","n">>), ValsA),
       PeriodRow(T(<<"E","n","d","i","n","g"," ","S","t","o","c","k","s">>), ValsC) >>

SampleSoy ==
    << PeriodRow(T(<<"S","O","Y","B","E","A","N","S">>), NoVals), PeriodRow(T(<<"P","r","o","d","u","c","t","i","o","n">>), ValsA),
       PeriodRow(T(<<"E","n","d","i","n","g"," ","S","t","o","c","k","s">>), ValsC),
       PeriodRow(T(<<"S","O","Y","B","E","A","N"," ","O","I","L">>), NoVals), PeriodRow(T(<<"P","r","o","d","u","c","t","i","o","n">>), ValsB),
       PeriodRow(T(<<"S","O","Y","B","E","A","N"," ","M","E","A","L">>), NoVals), PeriodRow(T(<<"P","r","o","d","u","c","t","i","o","n">>), ValsC) >>

SampleWheat ==
    << WheatTopRow(T(<<"P","r","o","d","u","c","t","i","o","n">>), ValsA), WheatTopRow(T(<<"E","n","d","i","n","g"," ","S","t","o","c","k","s">>), ValsC),
       WheatTopRow(T(<<"U",".","S","."," ","W","h","e","a","t"," ","b","y"," ","C","l","a","s","s">>), NoVals),
       WheatClassRow(T(<<"2","0","2","5","/","2","6"," ","(","P","r","o","j",".",")">>), T(<<"P","r","o","d","u","c","t","i","o","n">>), <<N(1), N(2), N(3), N(4), N(5)>>),
       WheatClassRow(Empty, T(<<"E","x","p","o","r","t","s">>), <<N(6), T(<<"7">>), Empty, N(8), N(9)>>) >>

Workbook(txt, c, s, w) == [ok |-> TRUE, txt |-> txt, corn |-> c, soy |-> s, wheat |-> w]

\* a file xlrd cannot open, or one without the pages read
Undecodable == [ok |-> FALSE, txt |-> << >>, corn |-> << >>, soy |-> << >>, wheat |-> << >>]

SampleWorkbook == Workbook(SampleTxt, SampleCorn, SampleSoy, SampleWheat)

EmptyWorkbook == Workbook(<< >>, << >>, << >>, << >>)

\* one page varied over every sheet of at most MaxRows rows, the other pages empty
SheetWorkbooks ==
    {Workbook(<< >>, c, << >>, << >>) : c \in SeqsUpTo(CornRowKinds, MaxRows)}
    \cup {Workbook(<< >>, << >>, s, << >>) : s \in SeqsUpTo(SoyRowKinds, MaxRows)}
    \cup {Workbook(<< >>, << >>, << >>, w) : w \in SeqsUpTo(WheatRowKinds, MaxRows)}
    \cup {Undecodable}

Years == MinYear..MaxYear
Months == 1..12

----------------------------------------------------------------------------
(* main() *)

TypeOK ==
    /\ year \in Years /\ month \in Months
    /\ html.block \in BOOLEAN
    /\ pc \in {"start", "downloaded", "extracted", "written", "success", "failed", "crashed"}
    /\ runs \in 1..MaxRuns

InitRun ==
    /\ xls = << >> /\ raw = << >> /\ data = << >>
    /\ pc = "start" /\ runs = 1

\* the runs of main() on a few reports, for every requested year and month
Init ==
    /\ InitRun
    /\ year \in Years /\ month \in Months
    /\ source \in {SampleWorkbook, EmptyWorkbook, Undecodable}
    /\ html \in {TemplateWithBlock, TemplateWithoutBlock}

\* one run of main() for each sheet of the bounded sheet sets
InitSheets ==
    /\ InitRun
    /\ year = MinYear /\ month = SheetMonth
    /\ \/ source \in SheetWorkbooks /\ html = TemplateWithBlock
       \/ source = SampleWorkbook /\ html = TemplateWithoutBlock

\* download_wasde returns the saved file
DownloadOk ==
    /\ pc = "start"
    /\ xls' = <<source>>
    /\ pc' = "downloaded"
    /\ UNCHANGED <<year, month, source, html, raw, data, runs>>

\* urlretrieve raises: download_wasde returns None and main exits with status 1
DownloadFail ==
    /\ pc = "start"
    /\ pc' = "failed"
    /\ UNCHANGED <<year, month, source, html, xls, raw, data, runs>>

Extract ==
    /\ pc = "downloaded"
    /\ xls[1].ok
    /\ raw' = <<raw_of(xls[1])>>
    /\ data' = <<assemble(raw'[1], xls[1], year, month)>>
    /\ pc' = "extracted"
    /\ UNCHANGED <<year, month, source, html, xls, runs>>

\* xlrd raises inside extract_data: the exception ends the run
ExtractRaises ==
    /\ pc = "downloaded"
    /\ ~xls[1].ok
    /\ pc' = "crashed"
    /\ UNCHANGED <<year, month, source, html, xls, raw, data, runs>>

\* update_html writes the artifact and returns True
UpdateHtmlOk ==
    /\ pc = "extracted"
    /\ re_sub(html, data[1]) # html
    /\ html' = re_sub(html, data[1])
    /\ pc' = "written"
    /\ UNCHANGED <<year, month, source, xls, raw, data, runs>>

\* update_html returns False: main exits with status 1
UpdateHtmlFail ==
    /\ pc = "extracted"
    /\ re_sub(html, data[1]) = html
    /\ pc' = "failed"
    /\ UNCHANGED <<year, month, source, html, xls, raw, data, runs>>

\* xls.unlink()
Cleanup ==
    /\ pc = "written"
    /\ xls' = << >>
    /\ pc' = "success"
    /\ UNCHANGED <<year, month, source, html, raw, data, runs>>

\* the script is run again; a file an earlier failed run left at the same path is
\* still there
Rerun ==
    /\ pc \in {"success", "failed", "crashed"}
    /\ runs < MaxRuns
    /\ runs' = runs + 1
    /\ \E y \in Years, m \in Months :
        /\ year' = y /\ month' = m
        /\ xls' = IF y = year /\ m = month THEN xls ELSE << >>
    /\ raw' = << >> /\ data' = << >>
    /\ pc' = "start"
    /\ UNCHANGED <<source, html>>

RunStep ==
    \/ DownloadOk \/ DownloadFail \/ Extract \/ ExtractRaises
    \/ UpdateHtmlOk \/ UpdateHtmlFail \/ Cleanup

Next == RunStep \/ Rerun

Spec == Init /\ [][Next]_vars

SpecSheets == InitSheets /\ [][RunStep]_vars

----------------------------------------------------------------------------
(* Vocabulary of the properties *)

Zero3 == <<0, 0, 0>>
Zero4 == <<0, 0, 0, 0>>

\* extract_data has returned in the current run
Extracted == raw # << >> /\ data # << >>

\* the page sheets the run read
SoyRows == source.soy
CornRows == source.corn
WheatRows == source.wheat

\* indices in [lo, hi) of the rows whose trimmed first-column text starts with label
MatchRows(rows, label, lo, hi) ==
    {i \in lo..hi - 1 : StartsWith(Strip(CellStr(rows[i + 1][1])), label)}

\* the coerced values of columns 1-4 of row i
Cols1to4(rows, i) ==
    <<safe(rows[i + 1][2]), safe(rows[i + 1][3]), safe(rows[i + 1][4]), safe(rows[i + 1][5])>>

HeaderRows(label) == MatchRows(SoyRows, label, 0, Len(SoyRows))
SoyHdr == First(HeaderRows(<<"S","O","Y","B","E","A","N","S">>))
OilHdr == First(HeaderRows(<<"S","O","Y","B","E","A","N"," ","O","I","L">>))
MealHdr == First(HeaderRows(<<"S","O","Y","B","E","A","N"," ","M","E","A","L">>))

HeadersInOrder ==
    /\ HeaderRows(<<"S","O","Y","B","E","A","N","S">>) # {} /\ HeaderRows(<<"S","O","Y","B","E","A","N"," ","O","I","L">>) # {}
    /\ HeaderRows(<<"S","O","Y","B","E","A","N"," ","M","E","A","L">>) # {}
    /\ SoyHdr < OilHdr /\ OilHdr < MealHdr

\* the series is the coerced columns of the first matching row of [lo, hi), when
\* there is one
FirstRowOf(series, label, lo, hi) ==
    LET c == MatchRows(SoyRows, label, lo, hi)
    IN  c # {} => series = Cols1to4(SoyRows, First(c))

\* the series is the zero fallback or comes from a matching row of [lo, hi), never
\* from a row outside
OnlyFrom(series, label, lo, hi) ==
    series = Zero4 \/ \E i \in MatchRows(SoyRows, label, lo, hi) : series = Cols1to4(SoyRows, i)

----------------------------------------------------------------------------
(* C1: with the headers SOYBEANS, SOYBEAN OIL, SOYBEAN MEAL in that order, every  *)
(* soybean-page metric that has a matching row inside its own section (meal:    *)
(* from the SOYBEAN MEAL header to the end of the sheet) gets the coerced       *)
(* columns 1-4 of the first such row.                                           *)
C1_FirstRowOfOwnSection ==
    (Extracted /\ HeadersInOrder) =>
        /\ \A k \in DOMAIN SoySchema :
               FirstRowOf(raw[1].soybeans[k].v, SoySchema[k], SoyHdr, OilHdr)
        /\ \A k \in DOMAIN OilSchema :
               FirstRowOf(raw[1].soybeans.oil.v[k].v, OilSchema[k], OilHdr, MealHdr)
        /\ \A k \in DOMAIN MealSchema :
               FirstRowOf(raw[1].soybeans.meal.v[k].v, MealSchema[k], MealHdr, Len(SoyRows))

(* C3: a SOYBEAN OIL header and no SOYBEAN MEAL header: the missing bound means  *)
(* the whole sheet, so an oil metric with a label row after the SOYBEAN OIL     *)
(* header gets that row's columns 1-4.                                          *)
C3_MissingMealIsUnbounded ==
    (Extracted /\ HeaderRows(<<"S","O","Y","B","E","A","N"," ","O","I","L">>) # {} /\ HeaderRows(<<"S","O","Y","B","E","A","N"," ","M","E","A","L">>) = {}) =>
        \A k \in DOMAIN OilSchema :
            FirstRowOf(raw[1].soybeans.oil.v[k].v, OilSchema[k], OilHdr, Len(SoyRows))

(* C6: SOYBEAN OIL at row o and SOYBEAN MEAL at a later row m, 0 < o < m: every   *)
(* oil metric is taken from a matching row of [o, m) or is the zero series, and *)
(* every primary-block metric from a matching row below o or is the zero series.*)
C6_SectionBounding ==
    (Extracted /\ HeaderRows(<<"S","O","Y","B","E","A","N"," ","O","I","L">>) # {} /\ HeaderRows(<<"S","O","Y","B","E","A","N"," ","M","E","A","L">>) # {}
        /\ 0 < OilHdr /\ OilHdr < MealHdr) =>
        /\ \A k \in DOMAIN OilSchema :
               OnlyFrom(raw[1].soybeans.oil.v[k].v, OilSchema[k], OilHdr, MealHdr)
        /\ \A k \in DOMAIN SoySchema :
               OnlyFrom(raw[1].soybeans[k].v, SoySchema[k], 0, OilHdr)

\* a Production row after the SOYBEAN MEAL header and one before the SOYBEAN OIL
\* header, none between the two headers: oil production is the zero series
C6_Witness ==
    /\ Extracted /\ HeaderRows(<<"S","O","Y","B","E","A","N"," ","O","I","L">>) # {} /\ HeaderRows(<<"S","O","Y","B","E","A","N"," ","M","E","A","L">>) # {}
    /\ 0 < OilHdr /\ OilHdr < MealHdr
    /\ MatchRows(SoyRows, <<"P","r","o","d","u","c","t","i","o","n">>, MealHdr, Len(SoyRows)) # {}
    /\ MatchRows(SoyRows, <<"P","r","o","d","u","c","t","i","o","n">>, 0, OilHdr) # {}
    /\ MatchRows(SoyRows, <<"P","r","o","d","u","c","t","i","o","n">>, OilHdr, MealHdr) = {}
    /\ raw[1].soybeans.oil.v.production.v = Zero4

----------------------------------------------------------------------------
\* the raw 4-element series of mapping d are published as <<s[0], s[1], s[3]>>
Published3(d, p) ==
    \A k \in DOMAIN d :
        (d[k].t = "numlist" /\ Len(d[k].v) = 4) =>
            p[k].v = <<d[k].v[1], d[k].v[2], d[k].v[4]>>

Commodities == {"corn", "soybeans", "wheat"}

(* C4: every raw 4-element series, at the top level of a commodity mapping and  *)
(* in the nested oil / meal mappings, is published as [s[0], s[1], s[3]], and   *)
(* endStocksPrev of corn, soybeans and wheat is s[2] of the raw endStocks.      *)
C4_Normalisation ==
    Extracted =>
        \A c \in Commodities :
            /\ Published3(raw[1][c], data[1][c])
            /\ \A k \in DOMAIN raw[1][c] :
                   raw[1][c][k].t = "dict" => Published3(raw[1][c][k].v, data[1][c][k].v)
            /\ data[1][c].endStocksPrev.v = raw[1][c].endStocks.v[3]

C4_Witness ==
    /\ Extracted
    /\ raw[1].soybeans.endStocks.v = <<7, 8, 9, 10>>
    /\ data[1].soybeans.endStocks.v = <<7, 8, 10>>
    /\ data[1].soybeans.endStocksPrev.v = 9
    /\ raw[1].soybeans.oil.v.production.v = <<1, 2, 3, 4>>
    /\ data[1].soybeans.oil.v.production.v = <<1, 2, 4>>

----------------------------------------------------------------------------
\* key k of the published mapping p is present, and is the zero series when no row
\* of the searched range matched
ZeroWhenMissing(p, k, matched) == k \in DOMAIN p /\ (matched = {} => p[k].v = Zero3)

(* C5: every declared metric of corn, soybeans (with oil and meal) and wheat is *)
(* a key of the published record, and a metric with no matching row in the     *)
(* range searched for it is published as [0, 0, 0].                             *)
C5_MissingRowZero ==
    Extracted =>
        /\ \A k \in DOMAIN CornSchema :
               ZeroWhenMissing(data[1].corn, k,
                   MatchRows(CornRows, CornSchema[k], corn_start(CornRows), Len(CornRows)))
        /\ \A k \in DOMAIN SoySchema :
               ZeroWhenMissing(data[1].soybeans, k,
                   MatchRows(SoyRows, SoySchema[k], soy_start(SoyRows),
                             SoyEnd(SoyRows, oil_start(SoyRows), << >>)))
        /\ "oil" \in DOMAIN data[1].soybeans /\ "meal" \in DOMAIN data[1].soybeans
        /\ \A k \in DOMAIN OilSchema :
               ZeroWhenMissing(data[1].soybeans.oil.v, k,
                   MatchRows(SoyRows, OilSchema[k], oil_start(SoyRows),
                             SoyEnd(SoyRows, oil_start(SoyRows), <<meal_start(SoyRows)>>)))
        /\ \A k \in DOMAIN MealSchema :
               ZeroWhenMissing(data[1].soybeans.meal.v, k,
                   MatchRows(SoyRows, MealSchema[k], meal_start(SoyRows),
                             SoyEnd(SoyRows, oil_start(SoyRows), << >>)))
        /\ \A k \in DOMAIN WheatSchema :
               ZeroWhenMissing(data[1].wheat, k,
                   MatchRows(WheatRows, WheatSchema[k], 0, Min2(WheatTopRows, Len(WheatRows))))

\* a corn page with a Production row and no Ending Stocks row
C5_Witness ==
    /\ Extracted
    /\ MatchRows(CornRows, <<"P","r","o","d","u","c","t","i","o","n">>, corn_start(CornRows), Len(CornRows)) # {}
    /\ MatchRows(CornRows, <<"E","n","d","i","n","g"," ","S","t","o","c","k","s">>, 0, Len(CornRows)) = {}
    /\ data[1].corn.production.v # Zero3
    /\ data[1].corn.endStocks.v = Zero3

----------------------------------------------------------------------------
(* C9: each wheat by-class metric is published with one value per class label, *)
(* the five values the row search extracted from columns 3, 5, 7, 8, 10.        *)
C9_ByClassFiveValues ==
    Extracted =>
        \A k \in DOMAIN WbcSchema :
            /\ Len(data[1].wheat.byClass.v[k].v) = Len(data[1].wheat.byClass.v.labels.v)
            /\ data[1].wheat.byClass.v[k].v = raw[1].wheat.byClass.v[k].v

----------------------------------------------------------------------------
\* f"{n:02d}"
TwoDigits(n) == IF n < 10 THEN <<"0">> \o Str(n) ELSE Str(n)

\* the marketing-year text y/(y+1 as two digits)
MarketingYear(y) == Str(y) \o <<"/">> \o TwoDigits((y + 1) % 100)

(* C2: for the requested year Y the years field is                              *)
(* [label(Y-2), label(Y-1) + " Est.", label(Y) + " Proj."].                     *)
C2_YearsFollowRequest ==
    Extracted =>
        data[1].years = << MarketingYear(year - 2),
                           MarketingYear(year - 1) \o <<" ","E","s","t",".">>,
                           MarketingYear(year) \o <<" ","P","r","o","j",".">> >>

\* the English month names
Calendar == << <<"J","a","n","u","a","r","y">>, <<"F","e","b","r","u","a","r","y">>, <<"M","a","r","c","h">>, <<"A","p","r","i","l">>, <<"M","a","y">>, <<"J","u","n","e">>, <<"J","u","l","y">>,
              <<"A","u","g","u","s","t">>, <<"S","e","p","t","e","m","b","e","r">>, <<"O","c","t","o","b","e","r">>, <<"N","o","v","e","m","b","e","r">>, <<"D","e","c","e","m","b","e","r">> >>

Abbrev(m) == SubSeq(Calendar[m], 1, 3)

(* C8: curMonth is the three-letter abbreviation of the requested month,       *)
(* prevMonth that of the cyclically preceding month (January gives Dec), and   *)
(* reportDate the full month name followed by the requested year.              *)
C8_MonthLabels ==
    Extracted =>
        /\ data[1].curMonth = Abbrev(month)
        /\ data[1].prevMonth = Abbrev(((month + 10) % 12) + 1)
        /\ data[1].reportDate = Calendar[month] \o <<" ">> \o Str(year)

C8_Witness == Extracted /\ month = 1 /\ data[1].prevMonth = <<"D","e","c">> /\ data[1].curMonth = <<"J","a","n">>

----------------------------------------------------------------------------
(* C7: index.html is written only by a step that update_html takes with the    *)
(* block found, and the run can then only end in success; a failed download    *)
(* ends the run before any extraction or write; with the block absent          *)
(* update_html fails, the artifact stays as it was and the run fails; the      *)
(* downloaded file is deleted only after the artifact was written.             *)
C7_NoPartialPublish ==
    [][ /\ (html' # html => pc = "extracted" /\ html.block /\ pc' = "written")
        /\ (pc = "written" => pc' = "success")
        /\ (pc' = "success" => pc = "written")
        /\ (pc = "start" /\ pc' = "failed" => raw' = << >> /\ data' = << >> /\ html' = html)
        /\ (pc = "extracted" /\ ~html.block => pc' = "failed" /\ html' = html)
        /\ (runs' = runs /\ xls # << >> /\ xls' = << >> => pc = "written")
        /\ (pc \in {"failed", "crashed"} => html' = html) ]_vars

\* a run that failed at the publication step for want of the block
C7_Witness ==
    pc = "failed" /\ Extracted /\ xls # << >> /\ html = TemplateWithoutBlock

(* C10: a run that downloaded and extracted fails at the publication step only *)
(* when the template holds no WASDE_DATA block.                                *)
C10_FailsOnlyWithoutBlock ==
    (pc = "failed" /\ Extracted) => ~html.block

====
